---- MODULE Spec2Model ----
(***************************************************************************)
(* facelist: the directory page handler of src/facelist.go.                *)
(*                                                                         *)
(* The process holds one package-level UserList (userlist) and a read-only *)
(* config (cfg).  net/http runs indexHandler in one goroutine per request, *)
(* so several handlers may be between any two of their statements at the   *)
(* same time.  Each action below is one statement (or one run of purely    *)
(* local statements) of indexHandler executed by goroutine g.              *)
(*                                                                         *)
(* Interleaving is at the level of statements: a json.Unmarshal call, one   *)
(* turn of the filter loop, one write of the template each happen at once, *)
(* and Execute works on the elements userlist.Members had when line 209    *)
(* read it.  The elements of the upstream's member objects that neither    *)
(* the filter nor the sort reads (name, team_id, title, ...) travel with   *)
(* the member's id.                                                        *)
(*                                                                         *)
(* Strings that the code compares (real names, emails, the email filter)   *)
(* are tuples of byte values, so that strings.ToLower, strings.HasSuffix   *)
(* and Go's bytewise < are computed and not assumed.                       *)
(***************************************************************************)
EXTENDS Integers, Sequences, FiniteSets, TLC

VARIABLES
    cfg,            \* config, set by init() and never written again
    userlist,       \* the package-level UserList (line 124)
    alive,          \* FALSE once log.Fatal has called os.Exit
    started,        \* number of requests the server has accepted
    pc,             \* pc[g]: the statement goroutine g is about to run
    resp,           \* resp[g]: what client.Get returned (resp, err, body)
    n,              \* n[g]: the length the range clause evaluated
    i,              \* i[g]: the loop index
    filteredUsers,  \* filteredUsers[g]: the local slice of line 195
    data,           \* data[g]: the UserList value passed to Execute
    w,              \* w[g]: the http.ResponseWriter of g's request
    parsed,         \* history: userlist.Members as g's own Unmarshal left it
    reads,          \* history: the elements g's loop read at line 197
    overlap         \* history: another request was in flight during g's

vars == <<cfg, userlist, alive, started, pc, resp, n, i, filteredUsers,
          data, w, parsed, reads, overlap>>

\* Requests accepted over the life of the process.
MaxRequests == 2

\* Goroutines that can run indexHandler at the same time.  Goroutines have
\* no identity: a number only names the slot a running handler occupies.
Handlers == {1, 2}

---------------------------------------------------------------------------
(* Strings as byte tuples *)

\* ""  and  "t.se"
EmailFilters == { <<>>, <<116, 46, 115, 101>> }

Min(a, b) == IF a < b THEN a ELSE b

\* strings.ToLower on ASCII: 'A'..'Z' are mapped to 'a'..'z'.
ToLowerByte(c) == IF c >= 65 /\ c <= 90 THEN c + 32 ELSE c

ToLower(s) == [k \in 1..Len(s) |-> ToLowerByte(s[k])]

\* strings.HasSuffix(s, suffix)
HasSuffix(s, suffix) ==
    /\ Len(s) >= Len(suffix)
    /\ SubSeq(s, Len(s) - Len(suffix) + 1, Len(s)) = suffix

\* Go's < on strings: bytewise lexicographic order.
StrLess(a, b) ==
    \E k \in 1..(Min(Len(a), Len(b)) + 1) :
        /\ \A j \in 1..(k - 1) : a[j] = b[j]
        /\ \/ k > Len(a) /\ k <= Len(b)
           \/ k <= Len(a) /\ k <= Len(b) /\ a[k] < b[k]

---------------------------------------------------------------------------
(* Types *)

\* The zero value of User.
ZeroUser ==
    [Id |-> "", IsBot |-> FALSE, Deleted |-> FALSE,
     Profile |-> [RealName |-> <<>>, Email |-> <<>>]]

\* The zero value of the ResponseWriter's observable state: no status line
\* sent, nothing of the page written, no error text written.
NoResponse ==
    [code |-> 0, head |-> FALSE, page |-> <<>>, footer |-> -1, error |-> ""]

\* No body read yet.
BodyNone == [kind |-> "none", has_members |-> FALSE, members |-> <<>>]

NoFetch == [err |-> FALSE, status |-> 0, body |-> BodyNone]

---------------------------------------------------------------------------
(* What the upstream can send *)

\* One element of the "members" array of the upstream JSON.  "email" stands
\* for the key profile.email, which the upstream may leave out.
Member(id, realName, isBot, deleted, hasEmail, email) ==
    [id |-> id, real_name |-> realName, is_bot |-> isBot, deleted |-> deleted,
     has_email |-> hasEmail, email |-> email]

\* A body that is not JSON (an HTML error page, a truncated read).
BodyInvalid == [kind |-> "invalid", has_members |-> FALSE, members |-> <<>>]

\* A JSON object without a "members" key, e.g. {"ok":false,"error":"..."}.
BodyNoMembers == [kind |-> "object", has_members |-> FALSE, members |-> <<>>]

MembersBody(ms) == [kind |-> "object", has_members |-> TRUE, members |-> ms]

\* "bob" x@t.se, "Bob" x@nt.se: equal keys once lower-cased.
BodyA ==
    MembersBody(<< Member("U1", <<98, 111, 98>>, FALSE, FALSE, TRUE,
                          <<120, 64, 116, 46, 115, 101>>),
                   Member("U2", <<66, 111, 98>>, FALSE, FALSE, TRUE,
                          <<120, 64, 110, 116, 46, 115, 101>>) >>)

\* "bob" without an email key, "Al" deleted, "al" a bot.
BodyB ==
    MembersBody(<< Member("U3", <<98, 111, 98>>, FALSE, FALSE, FALSE, <<>>),
                   Member("U4", <<65, 108>>, FALSE, TRUE, TRUE,
                          <<120, 64, 116, 46, 115, 101>>),
                   Member("U7", <<97, 108>>, TRUE, FALSE, TRUE,
                          <<120, 64, 116, 46, 115, 101>>) >>)

\* "bob" x@y.io, "al" x@t.se: not in order.
BodyC ==
    MembersBody(<< Member("U5", <<98, 111, 98>>, FALSE, FALSE, TRUE,
                          <<120, 64, 121, 46, 105, 111>>),
                   Member("U6", <<97, 108>>, FALSE, FALSE, TRUE,
                          <<120, 64, 116, 46, 115, 101>>) >>)

\* What client.Get can return without an error: any status with any body.
\* The handler reads only the body.
Responses ==
    { [err |-> FALSE, status |-> 200, body |-> b] :
          b \in {BodyInvalid, BodyNoMembers, BodyA, BodyB, BodyC} }
    \cup
    { [err |-> FALSE, status |-> 500, body |-> b] :
          b \in {BodyInvalid, BodyNoMembers} }

\* client.Get returned err != nil.
TransportError == [err |-> TRUE, status |-> 0, body |-> BodyNone]

---------------------------------------------------------------------------
(* json.Unmarshal(body, &userlist) *)

\* Decoding one JSON object into an existing User: a key that is present
\* sets its field, a key that is absent leaves the field as it was.
DecodeUser(m, old) ==
    [Id |-> m.id, IsBot |-> m.is_bot, Deleted |-> m.deleted,
     Profile |-> [RealName |-> m.real_name,
                  Email |-> IF m.has_email THEN m.email
                            ELSE old.Profile.Email]]

\* Decoding a JSON array into the existing slice: element k is decoded into
\* the element already at index k when there is one, into a zero User past
\* the old length; the slice is cut to the array's length.
DecodeMembers(ms, old) ==
    [k \in 1..Len(ms) |->
        DecodeUser(ms[k], IF k <= Len(old) THEN old[k] ELSE ZeroUser)]

\* Unmarshal into the package-level userlist: without a "members" key the
\* Members field is not touched.
Unmarshal(body, ul) ==
    IF body.has_members
    THEN [ul EXCEPT !.Members = DecodeMembers(body.members, ul.Members)]
    ELSE ul

\* err != nil at line 190
UnmarshalErr(body) == body.kind = "invalid"

---------------------------------------------------------------------------
(* The filter, lines 194-201 *)

\* The condition of line 198.
Keep(user) ==
    /\ ~user.Deleted
    /\ ~user.IsBot
    /\ HasSuffix(user.Profile.Email, cfg.EmailFilter)

\* A loop body that tests element k and appends its neighbour.
FilterStepNext(acc, members, k) ==
    IF Keep(members[k])
    THEN Append(acc, members[Min(k + 1, Len(members))])
    ELSE acc

\* One iteration, lines 197-200: user := members[k]; append it if kept.
FilterStep(acc, members, k) ==
    IF Keep(members[k]) THEN Append(acc, members[k]) ELSE acc

RECURSIVE FilterFrom(_, _, _)
FilterFrom(members, k, acc) ==
    IF k > Len(members) THEN acc
    ELSE FilterFrom(members, k + 1, FilterStep(acc, members, k))

\* The whole loop over one list, lines 195-201.
FilterSeq(members) == FilterFrom(members, 1, <<>>)

---------------------------------------------------------------------------
(* The sort, lines 203-206 *)

\* The less closure of line 205.
Less(a, b) == StrLess(ToLower(a.Profile.RealName), ToLower(b.Profile.RealName))

\* sort.SliceStable on fewer than 20 elements is an insertion sort: element
\* k moves left while it is less than its left neighbour.
RECURSIVE SinkLeft(_, _)
SinkLeft(s, j) ==
    IF j > 1 /\ Less(s[j], s[j - 1])
    THEN SinkLeft([s EXCEPT ![j] = s[j - 1], ![j - 1] = s[j]], j - 1)
    ELSE s

RECURSIVE InsertionSort(_, _)
InsertionSort(s, k) ==
    IF k > Len(s) THEN s ELSE InsertionSort(SinkLeft(s, k), k + 1)

SliceStable(s) == InsertionSort(s, 2)

---------------------------------------------------------------------------
(* The response, net/http *)

OopsMsg == "Oops. That's embarrassing. Please try again later."

\* err.Error() of a failed client.Get
GetErrText == "Get: transport error"

\* http.Error(w, msg, code): WriteHeader(code), which net/http ignores when
\* the status line has already gone out, then the message is written.
HttpError(wr, msg, code) ==
    [wr EXCEPT !.code = IF wr.code = 0 THEN code ELSE wr.code,
               !.error = msg]

\* w.Write: the first write sends the status line with 200.
Commit(wr) == [wr EXCEPT !.code = IF wr.code = 0 THEN 200 ELSE wr.code]

---------------------------------------------------------------------------
(* The process *)

Init ==
    /\ cfg \in [EmailFilter : EmailFilters]
    /\ userlist = [Members |-> <<>>]
    /\ alive = TRUE
    /\ started = 0
    /\ pc = [g \in Handlers |-> "idle"]
    /\ resp = [g \in Handlers |-> NoFetch]
    /\ n = [g \in Handlers |-> 0]
    /\ i = [g \in Handlers |-> 0]
    /\ filteredUsers = [g \in Handlers |-> <<>>]
    /\ data = [g \in Handlers |-> [Members |-> <<>>]]
    /\ w = [g \in Handlers |-> NoResponse]
    /\ parsed = [g \in Handlers |-> <<>>]
    /\ reads = [g \in Handlers |-> <<>>]
    /\ overlap = [g \in Handlers |-> FALSE]

\* The handler in slot g is not running: none was started there yet, or the
\* one that was has returned or panicked.
Free(g) == pc[g] \in {"idle", "done", "panicked"}

\* The handler in slot g returns or panics: its locals are gone.  What stays
\* is what the outside saw, the upstream's answer and the response.
Returns(g) ==
    /\ n' = [n EXCEPT ![g] = 0]
    /\ i' = [i EXCEPT ![g] = 0]
    /\ filteredUsers' = [filteredUsers EXCEPT ![g] = <<>>]
    /\ data' = [data EXCEPT ![g] = [Members |-> <<>>]]
    /\ parsed' = [parsed EXCEPT ![g] = <<>>]
    /\ reads' = [reads EXCEPT ![g] = <<>>]

\* A request arrives and net/http starts indexHandler for it in a new
\* goroutine, in slot g.
Arrives(g) ==
    /\ alive
    /\ Free(g)
    /\ started < MaxRequests
    /\ started' = started + 1
    /\ overlap' = [h \in Handlers |->
                      IF h = g THEN \E k \in Handlers \ {g} : ~Free(k)
                      ELSE IF Free(h) THEN overlap[h] ELSE TRUE]

\* Lines 179-186 with err != nil: 500 with the error text, and return.
GetFails(g) ==
    /\ Arrives(g)
    /\ resp' = [resp EXCEPT ![g] = TransportError]
    /\ w' = [w EXCEPT ![g] = HttpError(NoResponse, GetErrText, 500)]
    /\ pc' = [pc EXCEPT ![g] = "done"]
    /\ UNCHANGED <<cfg, userlist, alive, n, i, filteredUsers, data, parsed,
                   reads>>

\* Lines 179-187 with err = nil: the body is read, whatever the status.
GetReturns(g) ==
    /\ Arrives(g)
    /\ \E r \in Responses : resp' = [resp EXCEPT ![g] = r]
    /\ w' = [w EXCEPT ![g] = NoResponse]
    /\ pc' = [pc EXCEPT ![g] = "unmarshal"]
    /\ UNCHANGED <<cfg, userlist, alive, n, i, filteredUsers, data, parsed,
                   reads>>

\* Unmarshal that logs the error and goes on.
UnmarshalFailsLogged(g) ==
    /\ alive
    /\ pc[g] = "unmarshal"
    /\ UnmarshalErr(resp[g].body)
    /\ pc' = [pc EXCEPT ![g] = "range"]
    /\ UNCHANGED <<cfg, userlist, alive, started, resp, n, i, filteredUsers,
                   data, w, parsed, reads, overlap>>

\* Lines 189-192 with err != nil: log.Fatal prints and calls os.Exit(1); the
\* process and every goroutine in it are gone.
UnmarshalFails(g) ==
    /\ alive
    /\ pc[g] = "unmarshal"
    /\ UnmarshalErr(resp[g].body)
    /\ alive' = FALSE
    /\ pc' = [pc EXCEPT ![g] = "exited"]
    /\ UNCHANGED <<cfg, userlist, started, resp, n, i, filteredUsers, data,
                   w, parsed, reads, overlap>>

\* Line 189 with err = nil: the body is decoded into the package variable.
UnmarshalOk(g) ==
    /\ alive
    /\ pc[g] = "unmarshal"
    /\ ~UnmarshalErr(resp[g].body)
    /\ userlist' = Unmarshal(resp[g].body, userlist)
    /\ parsed' = [parsed EXCEPT ![g] = userlist'.Members]
    /\ pc' = [pc EXCEPT ![g] = "range"]
    /\ UNCHANGED <<cfg, alive, started, resp, n, i, filteredUsers, data, w,
                   reads, overlap>>

\* Lines 195-196: the range clause evaluates len(userlist.Members) once.
Range(g) ==
    /\ alive
    /\ pc[g] = "range"
    /\ n' = [n EXCEPT ![g] = Len(userlist.Members)]
    /\ i' = [i EXCEPT ![g] = 0]
    /\ filteredUsers' = [filteredUsers EXCEPT ![g] = <<>>]
    /\ pc' = [pc EXCEPT ![g] = "loop"]
    /\ UNCHANGED <<cfg, userlist, alive, started, resp, data, w, parsed,
                   reads, overlap>>

\* Lines 197-200: one iteration; userlist.Members[i] is read from the
\* package variable as it is now.
LoopStep(g) ==
    /\ alive
    /\ pc[g] = "loop"
    /\ i[g] < n[g]
    /\ i[g] + 1 <= Len(userlist.Members)
    /\ filteredUsers' = [filteredUsers EXCEPT
                            ![g] = FilterStep(@, userlist.Members, i[g] + 1)]
    /\ reads' = [reads EXCEPT ![g] = Append(@, userlist.Members[i[g] + 1])]
    /\ i' = [i EXCEPT ![g] = @ + 1]
    /\ UNCHANGED <<cfg, userlist, alive, started, pc, resp, n, data, w,
                   parsed, overlap>>

\* Line 197 with i past the end of what userlist.Members is now: index out
\* of range.  net/http recovers the panic and drops the connection.
LoopPanics(g) ==
    /\ alive
    /\ pc[g] = "loop"
    /\ i[g] < n[g]
    /\ i[g] + 1 > Len(userlist.Members)
    /\ pc' = [pc EXCEPT ![g] = "panicked"]
    /\ Returns(g)
    /\ UNCHANGED <<cfg, userlist, alive, started, resp, w, overlap>>

\* Lines 203-208: the loop is over, the local slice is sorted and stored in
\* the package variable.
SortAndStore(g) ==
    /\ alive
    /\ pc[g] = "loop"
    /\ i[g] = n[g]
    /\ filteredUsers' = [filteredUsers EXCEPT ![g] = SliceStable(@)]
    /\ userlist' = [userlist EXCEPT !.Members = filteredUsers'[g]]
    /\ pc' = [pc EXCEPT ![g] = "execute"]
    /\ UNCHANGED <<cfg, alive, started, resp, n, i, data, w, parsed, reads,
                   overlap>>

\* Line 209: userlist is read and passed to Execute by value.
Execute(g) ==
    /\ alive
    /\ pc[g] = "execute"
    /\ data' = [data EXCEPT ![g] = userlist]
    /\ pc' = [pc EXCEPT ![g] = "render"]
    /\ UNCHANGED <<cfg, userlist, alive, started, resp, n, i, filteredUsers,
                   w, parsed, reads, overlap>>

\* Template lines up to 100: the first write, which sends status 200.
WriteHead(g) ==
    /\ alive
    /\ pc[g] = "render"
    /\ ~w[g].head
    /\ w' = [w EXCEPT ![g] = [Commit(@) EXCEPT !.head = TRUE]]
    /\ UNCHANGED <<cfg, userlist, alive, started, pc, resp, n, i,
                   filteredUsers, data, parsed, reads, overlap>>

\* Template lines 101-113: one turn of {{range .Members}}.
WriteUser(g) ==
    /\ alive
    /\ pc[g] = "render"
    /\ w[g].head
    /\ Len(w[g].page) < Len(data[g].Members)
    /\ w' = [w EXCEPT ![g].page =
                Append(@, data[g].Members[Len(w[g].page) + 1])]
    /\ UNCHANGED <<cfg, userlist, alive, started, pc, resp, n, i,
                   filteredUsers, data, parsed, reads, overlap>>

\* Template lines 114-118: {{ len .Members }} and the rest; Execute returns
\* nil and the handler returns.
WriteFooter(g) ==
    /\ alive
    /\ pc[g] = "render"
    /\ w[g].head
    /\ Len(w[g].page) = Len(data[g].Members)
    /\ w' = [w EXCEPT ![g].footer = Len(data[g].Members)]
    /\ pc' = [pc EXCEPT ![g] = "done"]
    /\ Returns(g)
    /\ UNCHANGED <<cfg, userlist, alive, started, resp, overlap>>

\* Lines 209-212 with err != nil: a write of the template fails, at any
\* point of the page; the failure is logged and http.Error is called.
ExecuteFails(g) ==
    /\ alive
    /\ pc[g] = "render"
    /\ w' = [w EXCEPT ![g] = HttpError(@, OopsMsg, 500)]
    /\ pc' = [pc EXCEPT ![g] = "done"]
    /\ Returns(g)
    /\ UNCHANGED <<cfg, userlist, alive, started, resp, overlap>>

Next ==
    \E g \in Handlers :
        \/ GetFails(g)
        \/ GetReturns(g)
        \/ UnmarshalFails(g)
        \/ UnmarshalOk(g)
        \/ Range(g)
        \/ LoopStep(g)
        \/ LoopPanics(g)
        \/ SortAndStore(g)
        \/ Execute(g)
        \/ WriteHead(g)
        \/ WriteUser(g)
        \/ WriteFooter(g)
        \/ ExecuteFails(g)

Spec == Init /\ [][Next]_vars

---------------------------------------------------------------------------
(* Vocabulary of the properties *)

\* Goroutine g is inside Execute (line 209) with data[g] as the data.
Rendered(g) == pc[g] = "render"

\* client.Get failed for g's request.
FetchFailed(g) == resp[g].err

\* The body of g's request did not parse, and Unmarshal has said so.
ParseFailed(g) == pc[g] # "unmarshal" /\ UnmarshalErr(resp[g].body)

\* Nothing of the page has been written to g's response.
NoOutput(g) == ~w[g].head /\ w[g].page = <<>> /\ w[g].footer = -1

\* What a body decodes to in a process that has parsed nothing before.
Fresh(body) == Unmarshal(body, [Members |-> <<>>]).Members

\* s is t with some elements left out, the others in t's order.
RECURSIVE IsSubSeq(_, _)
IsSubSeq(s, t) ==
    IF s = <<>> THEN TRUE
    ELSE IF t = <<>> THEN FALSE
    ELSE IF Head(s) = Head(t) THEN IsSubSeq(Tail(s), Tail(t))
    ELSE IsSubSeq(s, Tail(t))

LowerKey(u) == ToLower(u.Profile.RealName)

\* g's request is over: the handler returned, panicked, or the process
\* exited under it.
Ended(g) ==
    \/ pc[g] \in {"done", "panicked", "exited"}
    \/ ~alive /\ ~Free(g)

\* HTTP 200 with the whole page and nothing else.
HtmlResponse(wr) ==
    wr.code = 200 /\ wr.head /\ wr.footer >= 0 /\ wr.error = ""

\* HTTP 500 with an error text and nothing of the page.
ErrorResponse(wr) ==
    wr.code = 500 /\ wr.error # "" /\ ~wr.head /\ wr.page = <<>>
    /\ wr.footer = -1

---------------------------------------------------------------------------
(* Properties *)

\* C1: for every request that reaches rendering, every member of the list
\* handed to the template, and every member written to the page, is not
\* deleted, is not a bot and has an email ending with the configured suffix.
C1_RenderedAreKept ==
    \A g \in Handlers :
        Rendered(g) =>
            /\ \A k \in 1..Len(data[g].Members) : Keep(data[g].Members[k])
            /\ \A k \in 1..Len(w[g].page) : Keep(w[g].page[k])

\* C2: the list handed to the template is in ascending order of lower-cased
\* real name, and two members with equal lower-cased real names that both
\* come from the request's own upstream response keep the order they have
\* there.
C2_RenderedSortedStable ==
    \A g \in Handlers :
        Rendered(g) =>
            LET m == data[g].Members
                up == resp[g].body.members
                Pos(id) == CHOOSE k \in 1..Len(up) : up[k].id = id
                InUp(id) == \E k \in 1..Len(up) : up[k].id = id
            IN  \A a, b \in 1..Len(m) :
                    a < b =>
                        /\ ~StrLess(LowerKey(m[b]), LowerKey(m[a]))
                        /\ (/\ LowerKey(m[a]) = LowerKey(m[b])
                            /\ InUp(m[a].Id) /\ InUp(m[b].Id))
                           => Pos(m[a].Id) < Pos(m[b].Id)

\* C3: a request handled while no other request is in flight renders the
\* list that its own upstream payload and the configuration determine:
\* the payload decoded on its own, filtered and sorted.
C3_OwnPayloadOnly ==
    \A g \in Handlers :
        (Rendered(g) /\ ~overlap[g]) =>
            data[g].Members = SliceStable(FilterSeq(Fresh(resp[g].body)))

\* C4: under every interleaving, a request renders exactly the filtered and
\* sorted members that its own parse of its own payload produced.
C4_NoInterference ==
    \A g \in Handlers :
        Rendered(g) => data[g].Members = SliceStable(FilterSeq(parsed[g]))

\* C5: when the fetch fails -- client.Get returns an error, or the upstream
\* answers with an HTTP error status -- the template is never invoked and
\* the response is HTTP 500 with the error text.
C5_FetchFailureIs500 ==
    \A g \in Handlers :
        (resp[g].err \/ resp[g].status >= 400) =>
            /\ pc[g] # "render"
            /\ NoOutput(g)
            /\ pc[g] = "done" => (w[g].code = 500 /\ w[g].error = GetErrText)

\* C6: a response that carries the template-failure message is HTTP 500 and
\* carries nothing but that message.
C6_TemplateFailureIs500 ==
    \A g \in Handlers :
        w[g].error = OopsMsg => (w[g].code = 500 /\ NoOutput(g))

\* C7: a parse failure ends the process; a request whose fetch or parse
\* failed has nothing of the page in its response and never gets to the
\* filter, the sort or the template; once the process has exited no handler
\* takes another step.
C7_NoPartialResults ==
    /\ \A g \in Handlers :
        /\ ParseFailed(g) => (~alive /\ pc[g] = "exited")
        /\ FetchFailed(g) => (pc[g] = "done" /\ w[g].code = 500)
        /\ (FetchFailed(g) \/ ParseFailed(g)) =>
              /\ NoOutput(g)
              /\ reads[g] = <<>>
              /\ filteredUsers[g] = <<>>
              /\ data[g] = [Members |-> <<>>]
    /\ ~alive => ~ENABLED Next

\* C7 witness: one request died on a parse failure (taking the process with
\* it) while another had answered a failed fetch.
C7_Witness ==
    \E g, h \in Handlers :
        /\ ParseFailed(g) /\ pc[g] = "exited"
        /\ FetchFailed(h) /\ pc[h] = "done"

\* C8: every request that is over has exactly one response, the whole page
\* with HTTP 200 or an error with HTTP 500.
C8_ExactlyOneResponse ==
    \A g \in Handlers :
        Ended(g) => (HtmlResponse(w[g]) \/ ErrorResponse(w[g]))

\* C9: filtering a filtered list gives the same list, and the filtered list
\* is the input with some members left out and the others unchanged -- for
\* every list the package variable holds, and for the list every handler's
\* loop has built from the elements it read.
C9_FilterIdempotent ==
    /\ LET m == userlist.Members
       IN  /\ FilterSeq(FilterSeq(m)) = FilterSeq(m)
           /\ IsSubSeq(FilterSeq(m), m)
    /\ \A g \in Handlers :
        /\ FilterSeq(filteredUsers[g]) = filteredUsers[g]
        /\ pc[g] = "loop" => IsSubSeq(filteredUsers[g], reads[g])

\* C9 witness: the package variable holds a list of which the filter keeps
\* some members and drops others, and a handler's loop has done the same.
C9_Witness ==
    /\ FilterSeq(userlist.Members) # <<>>
    /\ FilterSeq(userlist.Members) # userlist.Members
    /\ \E g \in Handlers :
        /\ pc[g] = "loop" /\ i[g] = n[g]
        /\ filteredUsers[g] # <<>>
        /\ Len(filteredUsers[g]) < Len(reads[g])

\* C10: the page of a successful request holds exactly the members of its
\* own upstream payload that are not deleted, not bots and have a matching
\* email, each once, and the footer count is the number of members on the
\* page.
C10_RenderedIsExactlyKeptUpstream ==
    \A g \in Handlers :
        (pc[g] = "done" /\ HtmlResponse(w[g])) =>
            LET up == Fresh(resp[g].body)
                kept == {k \in 1..Len(up) : Keep(up[k])}
                page == w[g].page
            IN  /\ Len(page) = Cardinality(kept)
                /\ \A k \in kept :
                      Cardinality({p \in 1..Len(page) : page[p] = up[k]}) = 1
                /\ \A p \in 1..Len(page) : \E k \in kept : page[p] = up[k]
                /\ w[g].footer = Len(page)

====
